---- MODULE Spec2Model ----
(***************************************************************************)
(* Model of the Everything MCP server (src/src/index.ts): four tools that  *)
(* configure the Everything engine's global query context through the      *)
(* native SDK, run one query and render the visible rows as text.          *)
(*                                                                         *)
(* Text is modelled by TLA+ strings; a character is a string of length 1.  *)
(* An optional parameter is a sequence of length at most one: <<>> is      *)
(* JavaScript's undefined, <<v>> is the value v.                           *)
(***************************************************************************)
EXTENDS Integers, Sequences, FiniteSets, TLC

VARIABLES
    phase,      \* "loading" | "serving" | "exited": the adapter process
    ctx,        \* the engine's global query context (the eight settable parameters)
    lastError,  \* the engine's last-error code
    calls,      \* per dispatch slot: position, request, outcome, trace, response
    sent,       \* per dispatch slot: responses written for the current invocation
    ref         \* a remembered completed call: [request, results, totalResults], or <<>>

vars == <<phase, ctx, lastError, calls, sent, ref>>

-----------------------------------------------------------------------------
(* Bounds of the model.                                                    *)

\* the largest maxResults a caller asks for (0 is asked for too, and rejected)
MaxRequested == 3

-----------------------------------------------------------------------------
(* Optional values.                                                        *)

None == <<>>

Some(v) == <<v>>

\* a destructuring default, `x = d`: applies exactly when x is undefined
OrDefault(o, d) == IF o = <<>> THEN d ELSE o[1]

-----------------------------------------------------------------------------
(* Text.                                                                   *)

Char(s, i) == SubSeq(s, i, i)

Min(a, b) == IF a <= b THEN a ELSE b

Digits == <<"0", "1", "2", "3", "4", "5", "6", "7", "8", "9">>

\* `${n}` for a non-negative integer: its decimal digits
RECURSIVE NumToStr(_)
NumToStr(n) ==
    IF n < 10 THEN Digits[n + 1]
    ELSE NumToStr(n \div 10) \o Digits[(n % 10) + 1]

\* String.prototype.endsWith
EndsWith(s, suffix) ==
    /\ Len(suffix) <= Len(s)
    /\ SubSeq(s, Len(s) - Len(suffix) + 1, Len(s)) = suffix

StartsWith(s, prefix) ==
    /\ Len(prefix) <= Len(s)
    /\ SubSeq(s, 1, Len(prefix)) = prefix

\* String.prototype.includes
Includes(s, part) ==
    \E i \in 1..(Len(s) - Len(part) + 1) : SubSeq(s, i, i + Len(part) - 1) = part

\* the k-th smallest element of a set of integers
Nth(S, k) == CHOOSE i \in S : Cardinality({j \in S : j < i}) = k - 1

\* the pieces of s between the separator positions seps
Pieces(s, seps) ==
    [k \in 1..(Cardinality(seps) + 1) |->
        SubSeq(s, IF k = 1 THEN 1 ELSE Nth(seps, k - 1) + 1,
                  IF k = Cardinality(seps) + 1 THEN Len(s) ELSE Nth(seps, k) - 1)]

\* String.prototype.split with a one-character separator
Split(s, sep) == Pieces(s, {i \in 1..Len(s) : Char(s, i) = sep})

IsSpace(c) == c \in {" ", "\t", "\n"}

RECURSIVE TrimStart(_)
TrimStart(s) ==
    IF Len(s) > 0 /\ IsSpace(Char(s, 1)) THEN TrimStart(SubSeq(s, 2, Len(s))) ELSE s

RECURSIVE TrimEnd(_)
TrimEnd(s) ==
    IF Len(s) > 0 /\ IsSpace(Char(s, Len(s))) THEN TrimEnd(SubSeq(s, 1, Len(s) - 1)) ELSE s

\* String.prototype.trim
Trim(s) == TrimEnd(TrimStart(s))

\* Array.prototype.join
RECURSIVE Join(_, _)
Join(parts, sep) ==
    IF Len(parts) = 0 THEN ""
    ELSE IF Len(parts) = 1 THEN parts[1]
    ELSE parts[1] \o sep \o Join(Tail(parts), sep)

\* JavaScript truthiness of an optional string: defined and not empty
Truthy(o) == o # <<>> /\ o[1] # ""

-----------------------------------------------------------------------------
(* Everything SDK constants.                                               *)

EVERYTHING_OK == 0
EVERYTHING_ERROR_MEMORY == 1
EVERYTHING_ERROR_IPC == 2
EVERYTHING_ERROR_REGISTERCLASSEX == 3
EVERYTHING_ERROR_CREATEWINDOW == 4
EVERYTHING_ERROR_CREATETHREAD == 5
EVERYTHING_ERROR_INVALIDINDEX == 6
EVERYTHING_ERROR_INVALIDCALL == 7
EVERYTHING_ERROR_INVALIDREQUEST == 8
EVERYTHING_ERROR_INVALIDPARAMETER == 9

EVERYTHING_SORT_NAME_ASCENDING == 1
EVERYTHING_SORT_NAME_DESCENDING == 2
EVERYTHING_SORT_PATH_ASCENDING == 3
EVERYTHING_SORT_PATH_DESCENDING == 4
EVERYTHING_SORT_SIZE_ASCENDING == 5
EVERYTHING_SORT_SIZE_DESCENDING == 6
EVERYTHING_SORT_DATE_MODIFIED_ASCENDING == 13
EVERYTHING_SORT_DATE_MODIFIED_DESCENDING == 14

EVERYTHING_REQUEST_FILE_NAME == 1
EVERYTHING_REQUEST_PATH == 2
EVERYTHING_REQUEST_FULL_PATH_AND_FILE_NAME == 4

\* a | b for the request flags, which are distinct powers of two
BitOr3(a, b, c) == a + b + c

HasFlag(flags, bit) == (flags \div bit) % 2 = 1

-----------------------------------------------------------------------------
(* The engine behind the native functions declared at index.ts:59-76.  It  *)
(* is not code of the adapter: it is its environment, modelled after the   *)
(* SDK's documented behaviour.  The file set is fixed; a row matches when  *)
(* every plain word of the search text occurs in its file name, subject to *)
(* the match-case, whole-word and regex settings, and its content holds    *)
(* the text of every content: filter.  The other words holding a colon     *)
(* (path:, ext:, size:, dm:) and the | of an OR-group are filters which    *)
(* every indexed row satisfies.                                            *)

Index ==
    << [fileName |-> "a.txt", path |-> "C:\\d", isFile |-> TRUE,  isFolder |-> FALSE,
        content |-> "x", nameRank |-> 3, pathRank |-> 3, size |-> 7, dateModified |-> 1],
       [fileName |-> "A",     path |-> "C:\\",  isFile |-> FALSE, isFolder |-> TRUE,
        content |-> "",  nameRank |-> 1, pathRank |-> 2, size |-> 0, dateModified |-> 4],
       [fileName |-> "ab",    path |-> "",      isFile |-> FALSE, isFolder |-> FALSE,
        content |-> "",  nameRank |-> 4, pathRank |-> 1, size |-> 9, dateModified |-> 2],
       [fileName |-> "b",     path |-> "C:\\d\\", isFile |-> TRUE, isFolder |-> FALSE,
        content |-> "x", nameRank |-> 5, pathRank |-> 4, size |-> 3, dateModified |-> 3],
       [fileName |-> "a.d",   path |-> "D:",    isFile |-> TRUE,  isFolder |-> FALSE,
        content |-> "xx", nameRank |-> 2, pathRank |-> 5, size |-> 5, dateModified |-> 5] >>

Rows == {Index[i] : i \in 1..Len(Index)}

Fold(c) == CASE c = "A" -> "a" [] c = "B" -> "b" [] OTHER -> c

WordChar(c) == Fold(c) \in {"a", "b", "d", "t", "x"}

CharMatches(pc, nc, c) ==
    \/ c.regex /\ pc = "."
    \/ IF c.matchCase THEN pc = nc ELSE Fold(pc) = Fold(nc)

MatchesAt(word, name, i, c) ==
    /\ i + Len(word) - 1 <= Len(name)
    /\ \A k \in 1..Len(word) : CharMatches(Char(word, k), Char(name, i + k - 1), c)

AtWordBoundary(name, i, n) ==
    /\ i = 1 \/ ~WordChar(Char(name, i - 1))
    /\ i + n - 1 = Len(name) \/ ~WordChar(Char(name, i + n))

WordHits(word, name, c) ==
    \E i \in 1..Len(name) :
        /\ MatchesAt(word, name, i, c)
        /\ c.matchWholeWord => AtWordBoundary(name, i, Len(word))

IsContentFilter(w) == StartsWith(w, "content:\"") /\ EndsWith(w, "\"") /\ Len(w) >= 10

\* the text between the quotes of content:"..."
ContentOf(w) == SubSeq(w, 10, Len(w) - 1)

IsFilterWord(w) == w = "" \/ w = "|" \/ Includes(w, ":")

\* a filter word: content:"t" asks for t in the row's content; every row
\* satisfies the others
FilterHolds(w, row) == IsContentFilter(w) => Includes(row.content, ContentOf(w))

WordHolds(w, row, c) ==
    IF IsFilterWord(w) THEN FilterHolds(w, row) ELSE WordHits(w, row.fileName, c)

\* words: the search text split at its spaces
RowMatches(row, words, c) == \A k \in 1..Len(words) : WordHolds(words[k], row, c)

MatchingRows(words, c) == {r \in Rows : RowMatches(r, words, c)}

\* the engine's sort key of a row under a sort code (smaller comes first)
SortKey(row, sort) ==
    CASE sort = EVERYTHING_SORT_NAME_DESCENDING          -> 0 - row.nameRank
      [] sort = EVERYTHING_SORT_PATH_ASCENDING           -> row.pathRank
      [] sort = EVERYTHING_SORT_PATH_DESCENDING          -> 0 - row.pathRank
      [] sort = EVERYTHING_SORT_SIZE_ASCENDING           -> row.size
      [] sort = EVERYTHING_SORT_SIZE_DESCENDING          -> 0 - row.size
      [] sort = EVERYTHING_SORT_DATE_MODIFIED_ASCENDING  -> row.dateModified
      [] sort = EVERYTHING_SORT_DATE_MODIFIED_DESCENDING -> 0 - row.dateModified
      [] OTHER                                           -> row.nameRank

RECURSIVE SortRows(_, _)
SortRows(S, sort) ==
    IF S = {} THEN <<>>
    ELSE LET first == CHOOSE r \in S : \A q \in S : SortKey(r, sort) <= SortKey(q, sort)
         IN  <<first>> \o SortRows(S \ {first}, sort)

\* every row of the file set that matches the context, in the context's order
EngineMatches(c) == SortRows(MatchingRows(Split(c.search, " "), c), c.sort)

\* the window of the matches the engine makes visible: offset, then at most max
Window(all, offset, max) == SubSeq(all, offset + 1, offset + Min(Len(all) - offset, max))

EngineVisible(c) == Window(EngineMatches(c), c.offset, c.max)

\* Everything_GetNumResults: the number of visible results
Everything_GetNumResults(vis) == Len(vis)

\* Everything_GetResultFileNameW: the name, or NULL ("" here) when not requested
Everything_GetResultFileNameW(vis, c, i) ==
    IF i < Len(vis) /\ HasFlag(c.requestFlags, EVERYTHING_REQUEST_FILE_NAME)
    THEN vis[i + 1].fileName ELSE ""

\* Everything_GetResultPathW: the directory, or NULL ("" here) when not requested
Everything_GetResultPathW(vis, c, i) ==
    IF i < Len(vis) /\ HasFlag(c.requestFlags, EVERYTHING_REQUEST_PATH)
    THEN vis[i + 1].path ELSE ""

Everything_IsFileResult(vis, i) == i < Len(vis) /\ vis[i + 1].isFile

Everything_IsFolderResult(vis, i) == i < Len(vis) /\ vis[i + 1].isFolder

-----------------------------------------------------------------------------
(* searchWithEverything (index.ts:79-194).  The function holds no await,   *)
(* so one run of it is one step: no other JavaScript runs inside it.       *)
(* env is what the native side does during the run: whether the query      *)
(* succeeds, the last-error code it leaves on failure, and the native      *)
(* function (if any) whose call raises an exception in the FFI layer.      *)

NoThrow == "none"

\* the message of an exception raised in the FFI layer
ExceptionMessage == "native call failed"

BoolStr(b) == IF b THEN "true" ELSE "false"

\* options.matchCase || false
OrFalse(o) == o # <<>> /\ o[1]

\* options.maxResults || 100
OrHundred(o) == IF o = <<>> \/ o[1] = 0 THEN 100 ELSE o[1]

\* the switch without its two cases for the date orders
SortOrderWithoutDate(sortBy) ==
    IF sortBy = <<>> THEN EVERYTHING_SORT_NAME_ASCENDING
    ELSE CASE sortBy[1] = "name_desc" -> EVERYTHING_SORT_NAME_DESCENDING
           [] sortBy[1] = "path_asc"  -> EVERYTHING_SORT_PATH_ASCENDING
           [] sortBy[1] = "path_desc" -> EVERYTHING_SORT_PATH_DESCENDING
           [] sortBy[1] = "size_asc"  -> EVERYTHING_SORT_SIZE_ASCENDING
           [] sortBy[1] = "size_desc" -> EVERYTHING_SORT_SIZE_DESCENDING
           [] OTHER                   -> EVERYTHING_SORT_NAME_ASCENDING

\* index.ts:99-122, the switch over options.sortBy
SortOrder(sortBy) ==
    IF sortBy = <<>> THEN EVERYTHING_SORT_NAME_ASCENDING
    ELSE CASE sortBy[1] = "name_desc" -> EVERYTHING_SORT_NAME_DESCENDING
           [] sortBy[1] = "path_asc"  -> EVERYTHING_SORT_PATH_ASCENDING
           [] sortBy[1] = "path_desc" -> EVERYTHING_SORT_PATH_DESCENDING
           [] sortBy[1] = "size_asc"  -> EVERYTHING_SORT_SIZE_ASCENDING
           [] sortBy[1] = "size_desc" -> EVERYTHING_SORT_SIZE_DESCENDING
           [] sortBy[1] = "date_asc"  -> EVERYTHING_SORT_DATE_MODIFIED_ASCENDING
           [] sortBy[1] = "date_desc" -> EVERYTHING_SORT_DATE_MODIFIED_DESCENDING
           [] OTHER                   -> EVERYTHING_SORT_NAME_ASCENDING

\* index.ts:96, the fields the adapter asks the engine for
RequestFlags ==
    BitOr3(EVERYTHING_REQUEST_FILE_NAME, EVERYTHING_REQUEST_PATH,
           EVERYTHING_REQUEST_FULL_PATH_AND_FILE_NAME)

\* Everything_SetMax(100): the maxResults of the call is dropped
MaxSettingDropped(options) == 100

\* index.ts:92, the value handed to Everything_SetMax
MaxSetting(options) == OrHundred(options.maxResults)

\* index.ts:88-123: the eight setter calls in program order, each with the
\* context field it writes, the value and the value as logged
Setters(query, options) ==
    << [fn |-> "Everything_SetSearchW", field |-> "search",
        value |-> <<query>>, shown |-> query],
       [fn |-> "Everything_SetMatchCase", field |-> "matchCase",
        value |-> <<OrFalse(options.matchCase)>>, shown |-> BoolStr(OrFalse(options.matchCase))],
       [fn |-> "Everything_SetMatchWholeWord", field |-> "matchWholeWord",
        value |-> <<OrFalse(options.matchWholeWord)>>,
        shown |-> BoolStr(OrFalse(options.matchWholeWord))],
       [fn |-> "Everything_SetRegex", field |-> "regex",
        value |-> <<OrFalse(options.regex)>>, shown |-> BoolStr(OrFalse(options.regex))],
       [fn |-> "Everything_SetMax", field |-> "max",
        value |-> <<MaxSetting(options)>>, shown |-> NumToStr(MaxSetting(options))],
       [fn |-> "Everything_SetOffset", field |-> "offset",
        value |-> <<0>>, shown |-> "0"],
       [fn |-> "Everything_SetRequestFlags", field |-> "requestFlags",
        value |-> <<RequestFlags>>, shown |-> NumToStr(RequestFlags)],
       [fn |-> "Everything_SetSort", field |-> "sort",
        value |-> <<SortOrder(options.sortBy)>>, shown |-> NumToStr(SortOrder(options.sortBy))] >>

NumSetters == 8

\* the position of the setter that throws, or NumSetters + 1 when none does
ThrowingSetter(set, env) ==
    IF \E k \in 1..NumSetters : set[k].fn = env.throwAt
    THEN CHOOSE k \in 1..NumSetters : set[k].fn = env.throwAt
    ELSE NumSetters + 1

\* the context when the sort order is written only if it is not the default
\* one: after a call with another order, that order stays
ContextAfterStaleSort(c0, set, done) ==
    [f \in DOMAIN c0 |->
        IF \E k \in 1..done : /\ set[k].field = f
                                /\ (f = "sort" => set[k].value[1] # EVERYTHING_SORT_NAME_ASCENDING)
        THEN set[CHOOSE k \in 1..done : set[k].field = f].value[1]
        ELSE c0[f]]

\* the context when match-case is written only if it is asked for: after a
\* case-sensitive call it stays set
ContextAfterStaleMatchCase(c0, set, done) ==
    [f \in DOMAIN c0 |->
        IF \E k \in 1..done : /\ set[k].field = f
                                /\ (f = "matchCase" => set[k].value[1])
        THEN set[CHOOSE k \in 1..done : set[k].field = f].value[1]
        ELSE c0[f]]

\* the context after the setters that completed: a setter that throws writes nothing
ContextAfter(c0, set, done) ==
    [f \in DOMAIN c0 |->
        IF \E k \in 1..done : set[k].field = f
        THEN set[CHOOSE k \in 1..done : set[k].field = f].value[1]
        ELSE c0[f]]

\* the switch without its case for EVERYTHING_ERROR_INVALIDPARAMETER
ErrorMessageWithoutParameter(errorCode) ==
    CASE errorCode = EVERYTHING_ERROR_MEMORY           -> "Out of memory"
      [] errorCode = EVERYTHING_ERROR_IPC              -> "Everything search client is not running"
      [] errorCode = EVERYTHING_ERROR_REGISTERCLASSEX  -> "Unable to register window class"
      [] errorCode = EVERYTHING_ERROR_CREATEWINDOW     -> "Unable to create listening window"
      [] errorCode = EVERYTHING_ERROR_CREATETHREAD     -> "Unable to create listening thread"
      [] errorCode = EVERYTHING_ERROR_INVALIDINDEX     -> "Invalid index"
      [] errorCode = EVERYTHING_ERROR_INVALIDCALL      -> "Invalid call"
      [] errorCode = EVERYTHING_ERROR_INVALIDREQUEST   -> "Invalid request data, request data first"
      [] OTHER -> "Everything query failed with error code: " \o NumToStr(errorCode)

\* index.ts:130-160, the message of a last-error code
ErrorMessage(errorCode) ==
    CASE errorCode = EVERYTHING_ERROR_MEMORY           -> "Out of memory"
      [] errorCode = EVERYTHING_ERROR_IPC              -> "Everything search client is not running"
      [] errorCode = EVERYTHING_ERROR_REGISTERCLASSEX  -> "Unable to register window class"
      [] errorCode = EVERYTHING_ERROR_CREATEWINDOW     -> "Unable to create listening window"
      [] errorCode = EVERYTHING_ERROR_CREATETHREAD     -> "Unable to create listening thread"
      [] errorCode = EVERYTHING_ERROR_INVALIDINDEX     -> "Invalid index"
      [] errorCode = EVERYTHING_ERROR_INVALIDCALL      -> "Invalid call"
      [] errorCode = EVERYTHING_ERROR_INVALIDREQUEST   -> "Invalid request data, request data first"
      [] errorCode = EVERYTHING_ERROR_INVALIDPARAMETER -> "Bad parameter"
      [] OTHER -> "Everything query failed with error code: " \o NumToStr(errorCode)

\* the join that always inserts a separator between directory and name
FullPathAlwaysSeparator(path, fileName) ==
    IF path # "" /\ fileName # "" THEN path \o "\\" \o fileName
    ELSE IF fileName # "" THEN fileName
    ELSE ""

\* index.ts:175-180, the displayed full path of a row
FullPath(path, fileName) ==
    IF path # "" /\ fileName # ""
    THEN IF EndsWith(path, "\\") THEN path \o fileName ELSE path \o "\\" \o fileName
    ELSE IF fileName # "" THEN fileName
    ELSE ""

\* index.ts:182, the type tag of a row
TypeTag(isFile, isFolder) ==
    IF isFile THEN "[FILE]" ELSE IF isFolder THEN "[FOLDER]" ELSE "[UNKNOWN]"

\* index.ts:170-183, the line of the row at index i
ResultLine(vis, c, i) ==
    TypeTag(Everything_IsFileResult(vis, i), Everything_IsFolderResult(vis, i))
        \o " " \o FullPath(Everything_GetResultPathW(vis, c, i),
                           Everything_GetResultFileNameW(vis, c, i))

\* index.ts:169, the bound of the extraction loop
LoopBound(numResults) == numResults

\* index.ts:169-184, the lines of the indexes 0..LoopBound-1
ResultLines(vis, c) ==
    [k \in 1..LoopBound(Everything_GetNumResults(vis)) |-> ResultLine(vis, c, k - 1)]

Getters ==
    << "Everything_GetResultFileNameW", "Everything_GetResultPathW",
       "Everything_IsFileResult", "Everything_IsFolderResult" >>

\* what a native call of the extraction loop returned, as logged
GetterResult(vis, c, g, i) ==
    CASE g = 1 -> Everything_GetResultFileNameW(vis, c, i)
      [] g = 2 -> Everything_GetResultPathW(vis, c, i)
      [] g = 3 -> BoolStr(Everything_IsFileResult(vis, i))
      [] OTHER -> BoolStr(Everything_IsFolderResult(vis, i))

\* the getter calls of the extraction loop from index i on, in program order
RECURSIVE GetterCalls(_, _, _, _)
GetterCalls(vis, c, i, n) ==
    IF i >= n THEN <<>>
    ELSE [g \in 1..Len(Getters) |->
             [fn |-> Getters[g], arg |-> NumToStr(i), result |-> GetterResult(vis, c, g, i)]]
         \o GetterCalls(vis, c, i + 1, n)

Threw == "throws"

\* the log up to its first call of fn, which throws; the whole log if there is none
ThrowingAt(log, fn) ==
    IF \E k \in 1..Len(log) : log[k].fn = fn
    THEN LET k == CHOOSE k \in 1..Len(log) :
                      /\ log[k].fn = fn
                      /\ \A j \in 1..(k - 1) : log[j].fn # fn
         IN  SubSeq(log, 1, k - 1) \o <<[log[k] EXCEPT !.result = Threw]>>
    ELSE log

\* a catch block that swallows the exception: an empty outcome without error
CaughtSwallowed(message) == [results |-> <<>>, totalResults |-> 0, error |-> <<>>]

\* index.ts:188-192, the outcome of the catch block
Caught(message) ==
    [results |-> <<>>, totalResults |-> 0,
     error |-> <<"Everything search failed: " \o message>>]

\* index.ts:162, the outcome of a failed query
Failed(errorCode) ==
    [results |-> <<>>, totalResults |-> 0, error |-> <<ErrorMessage(errorCode)>>]

\* index.ts:186, the outcome of a successful query
Succeeded(results, numResults) ==
    [results |-> results, totalResults |-> numResults, error |-> <<>>]

\* the native calls when the result count is read before the outcome of the
\* query is looked at: it is read after a failed query too
FullLogCountFirst(set, env, vis, c) ==
    [k \in 1..NumSetters |-> [fn |-> set[k].fn, arg |-> set[k].shown, result |-> ""]]
    \o <<[fn |-> "Everything_QueryW", arg |-> "true", result |-> BoolStr(env.queryOk)]>>
    \o <<[fn |-> "Everything_GetNumResults", arg |-> "",
          result |-> NumToStr(IF env.queryOk THEN Everything_GetNumResults(vis) ELSE 0)]>>
    \o (IF env.queryOk
        THEN GetterCalls(vis, c, 0, LoopBound(Everything_GetNumResults(vis)))
        ELSE <<[fn |-> "Everything_GetLastError", arg |-> "",
                result |-> NumToStr(env.errorCode)]>>)

\* the native calls of a run in which nothing throws, each with its argument
\* and what it returned
FullLog(set, env, vis, c) ==
    [k \in 1..NumSetters |-> [fn |-> set[k].fn, arg |-> set[k].shown, result |-> ""]]
    \o <<[fn |-> "Everything_QueryW", arg |-> "true", result |-> BoolStr(env.queryOk)]>>
    \o (IF env.queryOk
        THEN <<[fn |-> "Everything_GetNumResults", arg |-> "",
                result |-> NumToStr(Everything_GetNumResults(vis))]>>
             \o GetterCalls(vis, c, 0, LoopBound(Everything_GetNumResults(vis)))
        ELSE <<[fn |-> "Everything_GetLastError", arg |-> "",
                result |-> NumToStr(env.errorCode)]>>)

\* the outcome of a run whose log is given
Outcome(log, env, vis, c) ==
    IF log[Len(log)].result = Threw THEN Caught(ExceptionMessage)
    ELSE IF ~env.queryOk THEN Failed(env.errorCode)
    ELSE Succeeded(ResultLines(vis, c), Everything_GetNumResults(vis))

\* the engine's last-error code after a run: the query sets it when it is reached
LastErrorAfter(log, env, before) ==
    IF \E k \in 1..Len(log) : log[k].fn = "Everything_QueryW" /\ log[k].result # Threw
    THEN (IF env.queryOk THEN EVERYTHING_OK ELSE env.errorCode)
    ELSE before

\* the end of a run: the engine state it leaves, its log and its outcome
Extracted(env, eng, c, vis, log) ==
    [ctx |-> c,
     lastError |-> LastErrorAfter(log, env, eng.lastError),
     trace |-> log,
     outcome |-> Outcome(log, env, vis, c)]

\* index.ts:126-186, the query and what follows it, under the context c
Queried(set, env, eng, c, vis) ==
    Extracted(env, eng, c, vis, ThrowingAt(FullLog(set, env, vis, c), env.throwAt))

\* index.ts:88-123, the setter calls
Configured(set, env, eng, c) == Queried(set, env, eng, c, EngineVisible(c))

\* One run of searchWithEverything from engine state eng = [ctx, lastError]:
\* the engine state it leaves, the native calls it made and the outcome it
\* resolves to.
searchWithEverything(query, options, env, eng) ==
    LET set == Setters(query, options)
    IN  Configured(set, env, eng, ContextAfter(eng.ctx, set, ThrowingSetter(set, env) - 1))

-----------------------------------------------------------------------------
(* The four tools (index.ts:245-550).  A request is a record of the tool's *)
(* name and its arguments, the optional ones as optional values.           *)

SEARCH_FILES == "search_files"
SEARCH_FILES_ADVANCED == "search_files_advanced"
FIND_DUPLICATES == "find_duplicates"
SEARCH_CONTENT == "search_content"

\* z.number().min(1).max(20) and z.number().min(1).max(1000): the largest
\* maxResults each tool's schema accepts
MaxResultsLimit(tool) == IF tool = SEARCH_FILES THEN 20 ELSE 1000

SortKeys ==
    {"name_asc", "name_desc", "path_asc", "path_desc",
     "size_asc", "size_desc", "date_asc", "date_desc"}

\* the schema of a tool: what the server lets through to the handler
SchemaAccepts(a) ==
    /\ IF a.maxResults = <<>> THEN TRUE
       ELSE 1 <= a.maxResults[1] /\ a.maxResults[1] <= MaxResultsLimit(a.tool)
    /\ IF a.tool = SEARCH_FILES_ADVANCED /\ a.sortBy # <<>>
       THEN a.sortBy[1] \in SortKeys ELSE TRUE

\* the default of maxResults in each handler's parameter list
DefaultMaxResults(tool) ==
    CASE tool = SEARCH_FILES          -> 20
      [] tool = SEARCH_FILES_ADVANCED -> 100
      [] OTHER                        -> 50

\* `prefix` prepended to the text when the filter is truthy
Prepend(filter, before, after, text) ==
    IF Truthy(filter) THEN before \o filter[1] \o after \o text ELSE text

\* the filters prepended in the opposite order: path: ends up leftmost
AdvancedQueryPathFirst(a) ==
    LET q1 == Prepend(a.dateModified, "dm:", " ", a.query)
        q2 == Prepend(a.size, "size:", " ", q1)
        q3 == Prepend(a.extension, "ext:", " ", q2)
    IN  Prepend(a.path, "path:\"", "\" ", q3)

\* index.ts:330-346, the search text of search_files_advanced
AdvancedQuery(a) ==
    LET q1 == Prepend(a.path, "path:\"", "\" ", a.query)
        q2 == Prepend(a.extension, "ext:", " ", q1)
        q3 == Prepend(a.size, "size:", " ", q2)
    IN  Prepend(a.dateModified, "dm:", " ", q3)

\* index.ts:416-420, the search text of find_duplicates
DuplicatesQuery(a) == Prepend(a.path, "path:\"", "\" ", a.filename)

\* the clauses joined by a space, which the engine reads as AND
ExtClauseAnd(entries) == Join([k \in 1..Len(entries) |-> "ext:" \o Trim(entries[k])], " ")

\* index.ts:502, the clauses of the entries joined into an OR-group
ExtClause(entries) == Join([k \in 1..Len(entries) |-> "ext:" \o Trim(entries[k])], " | ")

\* index.ts:502, one ext: clause per entry of fileTypes
ExtClauses(fileTypes) == ExtClause(Split(fileTypes, ";"))

\* index.ts:499-508, the search text of search_content
ContentQuery(a) ==
    LET q0 == "content:\"" \o a.content \o "\""
        q1 == IF Truthy(a.fileTypes)
              THEN "(" \o ExtClauses(a.fileTypes[1]) \o ") " \o q0
              ELSE q0
    IN  Prepend(a.path, "path:\"", "\" ", q1)

\* the search text a handler passes to searchWithEverything
SearchQuery(a) ==
    CASE a.tool = SEARCH_FILES          -> a.query
      [] a.tool = SEARCH_FILES_ADVANCED -> AdvancedQuery(a)
      [] a.tool = FIND_DUPLICATES       -> DuplicatesQuery(a)
      [] OTHER                          -> ContentQuery(a)

\* the maxResults a handler passes on: the argument, or the tool's default
EffectiveMax(a) == OrDefault(a.maxResults, DefaultMaxResults(a.tool))

\* the options a handler passes to searchWithEverything
Options(a) ==
    CASE a.tool = SEARCH_FILES ->
            [maxResults |-> <<EffectiveMax(a)>>,
             matchCase |-> <<OrDefault(a.matchCase, FALSE)>>,
             matchWholeWord |-> <<OrDefault(a.matchWholeWord, FALSE)>>,
             regex |-> <<OrDefault(a.regex, FALSE)>>,
             sortBy |-> <<>>]
      [] a.tool = SEARCH_FILES_ADVANCED ->
            [maxResults |-> <<EffectiveMax(a)>>,
             matchCase |-> <<OrDefault(a.matchCase, FALSE)>>,
             matchWholeWord |-> <<OrDefault(a.matchWholeWord, FALSE)>>,
             regex |-> <<OrDefault(a.regex, FALSE)>>,
             sortBy |-> <<OrDefault(a.sortBy, "name_asc")>>]
      [] a.tool = FIND_DUPLICATES ->
            [maxResults |-> <<EffectiveMax(a)>>, matchCase |-> <<>>,
             matchWholeWord |-> <<TRUE>>, regex |-> <<>>, sortBy |-> <<>>]
      [] OTHER ->
            [maxResults |-> <<EffectiveMax(a)>>, matchCase |-> <<>>,
             matchWholeWord |-> <<>>, regex |-> <<>>, sortBy |-> <<>>]

ContentAdvisory == "Note: Content search requires Everything to have content indexing enabled."

\* the error text of every tool alike: search_content without its advisory
ErrorTextNoAdvisory(a, error) == "Error: " \o error

\* the text of the response to a failed call (the `if (error)` branches)
ErrorText(a, error) ==
    IF a.tool = SEARCH_CONTENT
    THEN "Error: " \o error \o ". " \o ContentAdvisory
    ELSE "Error: " \o error

Shown(o) == " (showing " \o NumToStr(Len(o.results))

\* index.ts:280-282
FilesText(a, o) ==
    IF Len(o.results) > 0
    THEN "Found " \o NumToStr(o.totalResults) \o " files" \o Shown(o) \o "):\n\n"
            \o Join(o.results, "\n")
    ELSE "No files found matching \"" \o a.query \o "\""

\* index.ts:371-379, the filters named in the summary
FilterSummary(a) ==
    LET named == (IF Truthy(a.path) THEN <<"path: \"" \o a.path[1] \o "\"">> ELSE <<>>)
              \o (IF Truthy(a.extension) THEN <<"extension: " \o a.extension[1]>> ELSE <<>>)
              \o (IF Truthy(a.size) THEN <<"size: " \o a.size[1]>> ELSE <<>>)
              \o (IF Truthy(a.dateModified)
                  THEN <<"date modified: " \o a.dateModified[1]>> ELSE <<>>)
    IN  IF Len(named) > 0 THEN " (filtered by " \o Join(named, ", ") \o ")" ELSE ""

\* index.ts:368-381
AdvancedText(a, o) ==
    "Found " \o NumToStr(o.totalResults) \o " files" \o FilterSummary(a)
        \o Shown(o) \o ", sorted by " \o OrDefault(a.sortBy, "name_asc") \o "):\n\n"
        \o (IF Len(o.results) > 0 THEN Join(o.results, "\n")
            ELSE "No files found matching \"" \o a.query \o "\"")

\* index.ts:439-443
DuplicatesText(a, o) ==
    IF o.totalResults > 1
    THEN "Found " \o NumToStr(o.totalResults) \o " instances of \"" \o a.filename \o "\""
            \o Shown(o) \o "):\n\n" \o Join(o.results, "\n")
    ELSE IF o.totalResults = 1
    THEN "Found only 1 instance of \"" \o a.filename \o "\":\n\n"
            \o (IF Len(o.results) > 0 THEN o.results[1] ELSE "undefined")
    ELSE "No files found with name \"" \o a.filename \o "\""

\* index.ts:526-528
ContentText(a, o) ==
    IF Len(o.results) > 0
    THEN "Found " \o NumToStr(o.totalResults) \o " files containing \"" \o a.content \o "\""
            \o Shown(o) \o "):\n\n" \o Join(o.results, "\n")
    ELSE "No files found containing \"" \o a.content \o "\". " \o ContentAdvisory

\* `if (error)`: the error of an outcome is defined and not empty
HasError(o) == Truthy(o.error)

\* what a handler returns once searchWithEverything has resolved to o
Response(a, o) ==
    IF HasError(o) THEN [text |-> ErrorText(a, o.error[1]), isError |-> TRUE]
    ELSE [text |-> CASE a.tool = SEARCH_FILES          -> FilesText(a, o)
                     [] a.tool = SEARCH_FILES_ADVANCED -> AdvancedText(a, o)
                     [] a.tool = FIND_DUPLICATES       -> DuplicatesText(a, o)
                     [] OTHER                          -> ContentText(a, o),
          isError |-> FALSE]

-----------------------------------------------------------------------------
(* The adapter process.  A handler is an async function: dispatching a     *)
(* call runs it up to `await searchWithEverything(...)`, the whole of      *)
(* searchWithEverything included; its continuation builds the response.    *)
(* The host may dispatch a second call before the first has resumed.       *)

Slots == {1, 2}

NoRequest == [tool |-> "none"]

NoOutcome == [results |-> <<>>, totalResults |-> 0, error |-> <<>>]

NoResponse == [text |-> "", isError |-> FALSE]

IdleCall ==
    [pc |-> "idle", request |-> NoRequest, outcome |-> NoOutcome,
     trace |-> <<>>, response |-> NoResponse]

\* no cap on the visible results: the SDK's default max is 0xFFFFFFFF, for which
\* the largest integer of the model checker stands
EVERYTHING_MAX_ALL == 2147483647

\* the query context of the engine before any setter has run (the SDK's defaults)
InitialContext ==
    [search |-> "", matchCase |-> FALSE, matchWholeWord |-> FALSE, regex |-> FALSE,
     max |-> EVERYTHING_MAX_ALL, offset |-> 0,
     requestFlags |-> EVERYTHING_REQUEST_FILE_NAME + EVERYTHING_REQUEST_PATH,
     sort |-> EVERYTHING_SORT_NAME_ASCENDING]

Init ==
    /\ phase = "loading"
    /\ ctx = InitialContext
    /\ lastError = EVERYTHING_OK
    /\ calls = [s \in Slots |-> IdleCall]
    /\ sent = [s \in Slots |-> 0]
    /\ ref = <<>>

\* index.ts:51-53, koffi.load succeeds: the tools are registered and served
LoadLibrary ==
    /\ phase = "loading"
    /\ phase' = "serving"
    /\ UNCHANGED <<ctx, lastError, calls, sent, ref>>

\* index.ts:53-56, koffi.load throws: process.exit(1)
LoadFails ==
    /\ phase = "loading"
    /\ phase' = "exited"
    /\ UNCHANGED <<ctx, lastError, calls, sent, ref>>

\* a run that ends the process when it ends in an error
PhaseAfterCallExiting(outcome) == IF outcome.error # <<>> THEN "exited" ELSE "serving"

\* what a run of searchWithEverything leaves of the process when it ends
PhaseAfterCall(outcome) == "serving"

\* what of a completed call is kept for a later comparison; `other` tells
\* whether a call with another request has been dispatched since
Remembered(c) ==
    [request |-> c.request, trace |-> c.trace, outcome |-> c.outcome, other |-> FALSE]

\* the remembered call once a call with the request a is dispatched (an
\* observer's note: no state of the adapter)
Noted(r, a) ==
    IF r # <<>> /\ a # r[1].request THEN <<[r[1] EXCEPT !.other = TRUE]>> ELSE r

\* A tool call is dispatched to slot s: the handler runs to its await.
Call(s, a, env) ==
    /\ phase = "serving"
    /\ calls[s].pc \in {"idle", "done"}
    /\ SchemaAccepts(a)
    /\ \E run \in {searchWithEverything(SearchQuery(a), Options(a), env,
                                       [ctx |-> ctx, lastError |-> lastError])} :
           /\ ctx' = run.ctx
           /\ lastError' = run.lastError
           /\ calls' = [calls EXCEPT ![s] =
                           [pc |-> "awaiting", request |-> a, outcome |-> run.outcome,
                            trace |-> run.trace, response |-> NoResponse]]
           /\ phase' = PhaseAfterCall(run.outcome)
    /\ sent' = [sent EXCEPT ![s] = 0]
    /\ ref' = Noted(ref, a)

\* The handler of slot s resumes after its await and returns its response.
Resume(s) ==
    /\ phase = "serving"
    /\ calls[s].pc = "awaiting"
    /\ calls' = [calls EXCEPT ![s].pc = "done",
                              ![s].response = Response(calls[s].request, calls[s].outcome)]
    /\ sent' = [sent EXCEPT ![s] = sent[s] + 1]
    /\ UNCHANGED <<phase, ctx, lastError, ref>>

\* The completed call of slot s is remembered, to be compared with a later
\* call of the same request (an observer's note: no state of the adapter).
Remember(s) ==
    /\ calls[s].pc = "done"
    /\ ref = <<>>
    /\ ref' = <<Remembered(calls[s])>>
    /\ UNCHANGED <<phase, ctx, lastError, calls, sent>>

-----------------------------------------------------------------------------
(* Inputs.                                                                 *)

OptBool == {<<>>, <<TRUE>>, <<FALSE>>}

\* maxResults as asked for: absent, or 0..MaxRequested (0 is below every schema)
OptMax == {<<>>} \cup {<<m>> : m \in 0..MaxRequested}

OptText == {<<>>, <<"">>, <<"x">>}

\* what the native side does during a run
Env(ok, code, at) == [queryOk |-> ok, errorCode |-> code, throwAt |-> at]

EnvOk == Env(TRUE, EVERYTHING_OK, NoThrow)

SearchFilesArgs(queries, maxes, cases, words, regexes) ==
    [tool : {SEARCH_FILES}, query : queries, maxResults : maxes,
     matchCase : cases, matchWholeWord : words, regex : regexes]

AdvancedArgs(queries, paths, exts, sizes, dates, maxes, cases, words, regexes, sorts) ==
    [tool : {SEARCH_FILES_ADVANCED}, query : queries, path : paths, extension : exts,
     size : sizes, dateModified : dates, maxResults : maxes, matchCase : cases,
     matchWholeWord : words, regex : regexes, sortBy : sorts]

DuplicatesArgs(names, paths, maxes) ==
    [tool : {FIND_DUPLICATES}, filename : names, path : paths, maxResults : maxes]

ContentArgs(contents, types, paths, maxes) ==
    [tool : {SEARCH_CONTENT}, content : contents, fileTypes : types, path : paths,
     maxResults : maxes]

-----------------------------------------------------------------------------
(* The run of searchWithEverything in two steps, for calls dispatched      *)
(* concurrently.  JavaScript runs a handler without interruption up to its *)
(* next await; the native calls are synchronous.  A handler that has       *)
(* called its setters therefore keeps the thread until it reaches an       *)
(* await, and no other handler or continuation runs meanwhile.  Call is    *)
(* Configure followed by QueryAndExtract.                                  *)

\* an await between the setters and the query
AwaitsBeforeQueryInserted == TRUE

\* index.ts:86-186: searchWithEverything holds no await, so none lies between
\* its setters and its query
AwaitsBeforeQuery == FALSE

\* the handler of slot s is in the middle of its native calls and running
HoldsThread(s) == calls[s].pc = "configured" /\ ~AwaitsBeforeQuery

\* no handler other than that of slot s is running
ThreadFreeFor(s) == \A o \in Slots \ {s} : ~HoldsThread(o)

\* a call can be dispatched to slot s
CanConfigure(s) ==
    /\ phase = "serving"
    /\ calls[s].pc \in {"idle", "done"}
    /\ ThreadFreeFor(s)

\* the log of the eight setter calls
SetterLog(set) ==
    [k \in 1..NumSetters |-> [fn |-> set[k].fn, arg |-> set[k].shown, result |-> ""]]

\* index.ts:88-123: a call is dispatched to slot s and its handler calls the
\* eight setters
Configure(s, a) ==
    /\ CanConfigure(s)
    /\ SchemaAccepts(a)
    /\ ctx' = ContextAfter(ctx, Setters(SearchQuery(a), Options(a)), NumSetters)
    /\ calls' = [calls EXCEPT ![s] =
                    [pc |-> "configured", request |-> a, outcome |-> NoOutcome,
                     trace |-> SetterLog(Setters(SearchQuery(a), Options(a))),
                     response |-> NoResponse]]
    /\ sent' = [sent EXCEPT ![s] = 0]
    /\ UNCHANGED <<phase, lastError, ref>>

\* index.ts:126-186: the handler of slot s queries and extracts the results,
\* under the context the engine holds at that moment, and reaches its await
QueryAndExtract(s) ==
    /\ phase = "serving"
    /\ calls[s].pc = "configured"
    /\ ThreadFreeFor(s)
    /\ \E run \in {Configured(Setters(SearchQuery(calls[s].request),
                                       Options(calls[s].request)),
                               EnvOk, [ctx |-> ctx, lastError |-> lastError], ctx)} :
           /\ lastError' = run.lastError
           /\ calls' = [calls EXCEPT ![s].pc = "awaiting",
                                     ![s].outcome = run.outcome,
                                     ![s].trace = run.trace]
    /\ UNCHANGED <<phase, ctx, sent, ref>>

\* the continuation of slot s runs when no handler is running
Respond(s) == ThreadFreeFor(s) /\ Resume(s)

-----------------------------------------------------------------------------
(* The main specification: every tool, every maxResults, queries matching  *)
(* no row, one row and several rows; the query succeeds, fails, or a       *)
(* native call throws.  The host serializes the calls (slot 1 only).       *)

MainArgs ==
    SearchFilesArgs({"a", "zz"}, OptMax, {<<>>, <<TRUE>>}, {<<>>}, {<<>>})
        \cup AdvancedArgs({"a", "zz"}, {<<>>}, {<<>>}, {<<>>}, {<<>>}, OptMax,
                          {<<FALSE>>}, {<<>>, <<TRUE>>}, {<<>>}, {<<>>, <<"size_desc">>})
        \cup DuplicatesArgs({"a", "b", "zz"}, {<<>>}, OptMax)
        \cup ContentArgs({"x", "q"}, {<<>>}, {<<>>}, OptMax)

MainEnvs ==
    {EnvOk, Env(FALSE, EVERYTHING_ERROR_IPC, NoThrow),
     Env(TRUE, EVERYTHING_OK, "Everything_QueryW"),
     Env(TRUE, EVERYTHING_OK, "Everything_GetResultPathW")}

Next ==
    \/ LoadLibrary
    \/ LoadFails
    \/ \E a \in MainArgs, env \in MainEnvs : Call(1, a, env)
    \/ Resume(1)

Spec == Init /\ [][Next]_vars

\* The microtask queue runs every continuation: a handler that awaits resumes.
LiveSpec == Spec /\ WF_vars(Resume(1))

-----------------------------------------------------------------------------
(* The specification of the failed queries: every tool, every last-error   *)
(* code from 0 to MaxErrorCode.                                            *)

\* the largest last-error code the engine leaves (the SDK defines 0..9)
MaxErrorCode == 10

ErrorCodes == 0..MaxErrorCode

ErrorArgs ==
    SearchFilesArgs({"a"}, {<<>>}, {<<>>}, {<<>>}, {<<>>})
        \cup AdvancedArgs({"a"}, {<<"P">>}, {<<>>}, {<<>>}, {<<>>}, {<<2>>},
                          {<<>>}, {<<>>}, {<<>>}, {<<"date_desc">>})
        \cup DuplicatesArgs({"a"}, {<<>>, <<"P">>}, {<<>>})
        \cup ContentArgs({"x"}, {<<>>, <<"txt">>}, {<<>>}, {<<>>})

ErrorEnvs == {EnvOk} \cup {Env(FALSE, code, NoThrow) : code \in ErrorCodes}

ErrorNext ==
    \/ LoadLibrary
    \/ LoadFails
    \/ \E a \in ErrorArgs, env \in ErrorEnvs : Call(1, a, env)
    \/ Resume(1)

ErrorSpec == Init /\ [][ErrorNext]_vars

-----------------------------------------------------------------------------
(* The specification of the search texts: search_files_advanced with every *)
(* filter absent, empty and given; search_content with file type lists.    *)

TextArgs ==
    AdvancedArgs({"report"}, {<<>>, <<"">>, <<"P">>}, {<<>>, <<"">>, <<"pdf">>},
                 {<<>>, <<"">>, <<">1mb">>}, {<<>>, <<"">>, <<"today">>},
                 {<<>>}, {<<>>}, {<<>>}, {<<>>}, {<<>>})
        \cup ContentArgs({"x"},
                         {<<>>, <<"">>, <<"txt">>, <<"txt;pdf">>, <<"txt; pdf">>,
                          <<" txt ;pdf;">>},
                         {<<>>, <<"">>, <<"C:\\d">>}, {<<>>})

TextNext ==
    \/ LoadLibrary
    \/ LoadFails
    \/ \E a \in TextArgs : Call(1, a, EnvOk)
    \/ Resume(1)

TextSpec == Init /\ [][TextNext]_vars

-----------------------------------------------------------------------------
(* The specification of the sort orders: search_files_advanced with every  *)
(* sortBy of its schema and without one, and the three other tools.        *)

OptSort == {<<>>} \cup {<<key>> : key \in SortKeys}

SortArgs ==
    AdvancedArgs({"a", "zz"}, {<<>>}, {<<>>}, {<<>>}, {<<>>}, {<<>>, <<1>>, <<2>>},
                 {<<>>}, {<<>>}, {<<>>}, OptSort)
        \cup SearchFilesArgs({"a"}, {<<>>, <<2>>}, {<<>>}, {<<>>}, {<<>>})
        \cup DuplicatesArgs({"a"}, {<<>>}, {<<>>, <<2>>})
        \cup ContentArgs({"x"}, {<<>>}, {<<>>}, {<<>>, <<2>>})

SortNext ==
    \/ LoadLibrary
    \/ LoadFails
    \/ \E a \in SortArgs : Call(1, a, EnvOk)
    \/ Resume(1)

SortSpec == Init /\ [][SortNext]_vars

-----------------------------------------------------------------------------
(* The specification of repeated calls: a completed call is remembered,    *)
(* other calls are served, and the same request is called again.           *)

RepeatArgs ==
    SearchFilesArgs({"a"}, {<<>>, <<2>>}, {<<>>, <<TRUE>>}, {<<>>}, {<<>>})
        \cup AdvancedArgs({"a"}, {<<>>}, {<<>>}, {<<>>}, {<<>>}, {<<>>, <<1>>},
                          {<<>>}, {<<>>, <<TRUE>>}, {<<>>},
                          {<<>>, <<"size_desc">>, <<"date_asc">>})
        \cup DuplicatesArgs({"a"}, {<<>>}, {<<>>, <<1>>})
        \cup ContentArgs({"x"}, {<<>>}, {<<>>}, {<<>>})

RepeatEnvs == {EnvOk, Env(FALSE, EVERYTHING_ERROR_IPC, NoThrow)}

RepeatNext ==
    \/ LoadLibrary
    \/ LoadFails
    \/ \E a \in RepeatArgs, env \in RepeatEnvs : Call(1, a, env)
    \/ Resume(1)
    \/ Remember(1)

RepeatSpec == Init /\ [][RepeatNext]_vars

-----------------------------------------------------------------------------
(* The specification of the query context: calls that differ in every      *)
(* parameter, complete, failed, or cut short by a setter that throws and   *)
(* leaves the context written in part; a completed call is remembered.     *)

ContextArgs ==
    SearchFilesArgs({"a"}, {<<>>, <<2>>}, {<<>>, <<TRUE>>}, {<<>>}, {<<>>})
        \cup AdvancedArgs({"b"}, {<<>>}, {<<>>}, {<<>>}, {<<>>}, {<<1>>},
                          {<<>>}, {<<TRUE>>}, {<<>>, <<TRUE>>}, {<<>>, <<"size_desc">>})
        \cup DuplicatesArgs({"a"}, {<<"P">>}, {<<>>})
        \cup ContentArgs({"x"}, {<<>>}, {<<>>}, {<<3>>})

ContextEnvs ==
    {EnvOk, Env(FALSE, EVERYTHING_ERROR_IPC, NoThrow),
     Env(TRUE, EVERYTHING_OK, "Everything_SetRegex")}

ContextNext ==
    \/ LoadLibrary
    \/ LoadFails
    \/ \E a \in ContextArgs, env \in ContextEnvs : Call(1, a, env)
    \/ Resume(1)
    \/ Remember(1)

ContextSpec == Init /\ [][ContextNext]_vars

-----------------------------------------------------------------------------
(* The specification of concurrent dispatch: the host dispatches calls to  *)
(* both slots without waiting for the responses.                           *)

ConcurrentArgs ==
    SearchFilesArgs({"a"}, {<<>>, <<1>>}, {<<>>}, {<<>>}, {<<>>})
        \cup AdvancedArgs({"a"}, {<<>>}, {<<>>}, {<<>>}, {<<>>}, {<<2>>},
                          {<<>>}, {<<>>}, {<<>>}, {<<"size_desc">>})
        \cup DuplicatesArgs({"b"}, {<<>>}, {<<>>})

ConcurrentNext ==
    \/ LoadLibrary
    \/ LoadFails
    \/ \E s \in Slots, a \in ConcurrentArgs : Configure(s, a)
    \/ \E s \in Slots : QueryAndExtract(s)
    \/ \E s \in Slots : Respond(s)

ConcurrentSpec == Init /\ [][ConcurrentNext]_vars

-----------------------------------------------------------------------------
(* What the claims speak of.  Under the serialized specifications the      *)
(* engine context belongs to the call of slot 1 from its dispatch until    *)
(* the next dispatch.                                                      *)

\* the call of slot s has returned its response
Done(s) == calls[s].pc = "done"

\* the native query of the run was made and returned false
NativeFailed(t) ==
    \E k \in 1..Len(t) : t[k].fn = "Everything_QueryW" /\ t[k].result = "false"

\* a native call of the run raised an exception
Raised(t) == Len(t) > 0 /\ t[Len(t)].result = Threw

\* the native query of the run returned true and nothing was raised
NativeSucceeded(t) ==
    /\ \E k \in 1..Len(t) : t[k].fn = "Everything_QueryW" /\ t[k].result = "true"
    /\ ~Raised(t)

\* the number of items of the file set that match the current context
TrueTotal == Len(EngineMatches(ctx))

IsResultLine(line) ==
    StartsWith(line, "[FILE] ") \/ StartsWith(line, "[FOLDER] ")
        \/ StartsWith(line, "[UNKNOWN] ")

CountResultLines(lines) == Cardinality({k \in 1..Len(lines) : IsResultLine(lines[k])})

\* the number of formatted result lines in a response text
ResultLinesIn(text) == CountResultLines(Split(text, "\n"))

\* the maxResults in force for a request: the argument, else the documented default
AskedMax(a) ==
    IF a.maxResults # <<>> THEN a.maxResults[1]
    ELSE IF a.tool = SEARCH_FILES THEN 20
    ELSE IF a.tool = SEARCH_FILES_ADVANCED THEN 100
    ELSE 50

\* C1: a successful call of any tool returns at most maxResults formatted
\* result lines, in its outcome and in its response text, however many items
\* match in the engine.
C1_LinesWithinMax ==
    \A s \in Slots :
        (calls[s].pc \in {"awaiting", "done"} /\ NativeSucceeded(calls[s].trace)) =>
            /\ Len(calls[s].outcome.results) <= AskedMax(calls[s].request)
            /\ Done(s) => ResultLinesIn(calls[s].response.text) <= AskedMax(calls[s].request)

\* C1 witness: more items match than the maxResults asked for, and exactly
\* maxResults lines are returned.
C1_Witness ==
    /\ Done(1)
    /\ NativeSucceeded(calls[1].trace)
    /\ calls[1].request.maxResults = <<2>>
    /\ TrueTotal > 2
    /\ ResultLinesIn(calls[1].response.text) = 2

\* C2: on a successful query the reported total is the engine's true number
\* of matches, shown as "Found N"; it exceeds the number of lines when more
\* items match than maxResults.
C2_TotalIsTrueTotal ==
    (Done(1) /\ NativeSucceeded(calls[1].trace)) =>
        /\ calls[1].outcome.totalResults = TrueTotal
        /\ Len(calls[1].outcome.results) > 0 =>
               StartsWith(calls[1].response.text, "Found " \o NumToStr(TrueTotal) \o " ")
        /\ TrueTotal > AskedMax(calls[1].request) =>
               calls[1].outcome.totalResults > Len(calls[1].outcome.results)

\* C3: find_duplicates answers by the true number of matches: none, "No files
\* found"; one, "Found only 1 instance"; two or more, "Found N instances" with
\* N the true total.
C3_DuplicatesByTrueTotal ==
    (Done(1) /\ calls[1].request.tool = FIND_DUPLICATES
             /\ NativeSucceeded(calls[1].trace)) =>
        LET text == calls[1].response.text
            none == Includes(text, "No files found")
            one  == Includes(text, "Found only 1 instance")
            many == Includes(text, "Found " \o NumToStr(TrueTotal) \o " instances")
        IN  /\ TrueTotal = 0 => (none /\ ~one /\ ~many)
            /\ TrueTotal = 1 => (one /\ ~none /\ ~many)
            /\ TrueTotal >= 2 => (many /\ ~none /\ ~one)

\* the search text handed to the engine by a run: the argument of its first call
SearchTextOf(t) == t[1].arg

SetsSearchText(t) == Len(t) > 0 /\ t[1].fn = "Everything_SetSearchW"

\* a filter counts as provided when it is given with a non-empty value
Provided(o) == o # <<>> /\ o[1] # ""

\* the prefix of a filter when it is provided, nothing otherwise
PrefixIfProvided(before, o, after) == IF Provided(o) THEN before \o o[1] \o after ELSE ""

\* dm:, size:, ext:, path: and the query from left to right
OrderedSearchText(a) ==
    PrefixIfProvided("dm:", a.dateModified, " ")
        \o PrefixIfProvided("size:", a.size, " ")
        \o PrefixIfProvided("ext:", a.extension, " ")
        \o PrefixIfProvided("path:\"", a.path, "\" ")
        \o a.query

\* C4: the search text search_files_advanced passes to the engine is dm:,
\* size:, ext:, path:"..." and then the query, in that order from left to
\* right, each prefix followed by one space and present exactly when its
\* filter is provided (given with a non-empty value), for every subset of
\* the filters.
C4_SearchTextOrder ==
    (Done(1) /\ calls[1].request.tool = SEARCH_FILES_ADVANCED) =>
        /\ SetsSearchText(calls[1].trace)
        /\ SearchTextOf(calls[1].trace) = OrderedSearchText(calls[1].request)

\* C4 witness: query=report, path=P, extension=pdf gives ext:pdf path:"P" report.
C4_Witness ==
    /\ Done(1)
    /\ calls[1].request.tool = SEARCH_FILES_ADVANCED
    /\ calls[1].request.query = "report"
    /\ calls[1].request.path = <<"P">>
    /\ calls[1].request.extension = <<"pdf">>
    /\ calls[1].request.size = <<>>
    /\ calls[1].request.dateModified = <<>>
    /\ SearchTextOf(calls[1].trace) = "ext:pdf path:\"P\" report"

\* the OR-group of a file type list: one ext: clause per semicolon-separated
\* entry, joined by " | ", in parentheses, then a space
OrGroup(fileTypes) ==
    LET entries == Split(fileTypes, ";")
    IN  "(" \o Join([k \in 1..Len(entries) |-> "ext:" \o Trim(entries[k])], " | ") \o ") "

\* path:"...", the OR-group and content:"..." from left to right
ContentSearchText(a) ==
    PrefixIfProvided("path:\"", a.path, "\" ")
        \o (IF Provided(a.fileTypes) THEN OrGroup(a.fileTypes[1]) ELSE "")
        \o "content:\"" \o a.content \o "\""

\* C5: the search text search_content passes to the engine is
\* content:"<content>", preceded when fileTypes is provided by the
\* parenthesised OR-group of one ext:<type> clause per semicolon-separated
\* entry (the type is the entry without surrounding white space), and
\* preceded before everything by path:"<path>" and a space when path is
\* provided.
C5_ContentSearchText ==
    (Done(1) /\ calls[1].request.tool = SEARCH_CONTENT) =>
        /\ SetsSearchText(calls[1].trace)
        /\ SearchTextOf(calls[1].trace) = ContentSearchText(calls[1].request)

\* C5 witness: fileTypes="txt;pdf" with a path gives the full form.
C5_Witness ==
    /\ Done(1)
    /\ calls[1].request.tool = SEARCH_CONTENT
    /\ calls[1].request.fileTypes = <<"txt;pdf">>
    /\ calls[1].request.path = <<"C:\\d">>
    /\ SearchTextOf(calls[1].trace) = "path:\"C:\\d\" (ext:txt | ext:pdf) content:\"x\""

\* the last-error code the run read after its failed query was code
ReadLastError(t, code) ==
    \E k \in 1..Len(t) :
        t[k].fn = "Everything_GetLastError" /\ t[k].result = NumToStr(code)

\* C6 as stated: when the native query fails with last-error code 2, the
\* response is error-flagged and its text equals "Everything search client
\* is not running".
C6_TextEqualsMessage ==
    (Done(1) /\ NativeFailed(calls[1].trace) /\ ReadLastError(calls[1].trace, 2)) =>
        /\ calls[1].response.isError
        /\ calls[1].response.text = "Everything search client is not running"

\* C6 amended: when the native query fails with last-error code 2, the
\* outcome's error message equals "Everything search client is not running",
\* the response is error-flagged, and its text is "Error: " followed by that
\* message, followed for search_content by ". " and the content-indexing
\* advisory.
C6_TextIsErrorThenMessage ==
    (Done(1) /\ NativeFailed(calls[1].trace) /\ ReadLastError(calls[1].trace, 2)) =>
        /\ calls[1].outcome.error = <<"Everything search client is not running">>
        /\ calls[1].response.isError
        /\ calls[1].response.text =
               IF calls[1].request.tool = SEARCH_CONTENT
               THEN "Error: Everything search client is not running. Note: Content "
                        \o "search requires Everything to have content indexing enabled."
               ELSE "Error: Everything search client is not running"

\* C6 witness: a search_content call whose query failed with code 2 has
\* returned its error-flagged response.
C6_Witness ==
    /\ Done(1)
    /\ calls[1].request.tool = SEARCH_CONTENT
    /\ NativeFailed(calls[1].trace)
    /\ ReadLastError(calls[1].trace, 2)
    /\ calls[1].response.isError
    /\ StartsWith(calls[1].response.text, "Error: Everything search client is not running")

\* C7: for every tool the response is error-flagged exactly when the native
\* query failed or an exception was raised during the call; a successful
\* query with zero results is not error-flagged.
C7_ErrorFlagIffFailure ==
    Done(1) =>
        /\ calls[1].response.isError
               <=> (NativeFailed(calls[1].trace) \/ Raised(calls[1].trace))
        /\ (NativeSucceeded(calls[1].trace) /\ calls[1].outcome.results = <<>>)
               => ~calls[1].response.isError

\* C7 witness: a successful query with zero results, answered without the
\* error flag.
C7_Witness ==
    /\ Done(1)
    /\ NativeSucceeded(calls[1].trace)
    /\ TrueTotal = 0
    /\ calls[1].outcome.results = <<>>
    /\ ~calls[1].response.isError

\* the number of native query calls of a run
QueryCalls(t) == Cardinality({k \in 1..Len(t) : t[k].fn = "Everything_QueryW"})

\* the call of slot 1 ended in a failed query or an exception
EndedInError == NativeFailed(calls[1].trace) \/ Raised(calls[1].trace)

\* the conditions under which Call dispatches an accepted request to slot s
CanDispatch(s) == phase = "serving" /\ calls[s].pc \in {"idle", "done"}

\* C8: once started the adapter never terminates; every call dispatched is
\* answered, and answered exactly once; a failed query or an exception is
\* answered with an error-flagged response after a single native query, no
\* retry; after any response, error-flagged or not, a further call can be
\* dispatched, and a call that follows an error-flagged one and whose query
\* succeeds is answered without error.
C8_OneResponseAndServing ==
    /\ [][phase = "serving" => phase' = "serving"]_vars
    /\ [][sent[1]' <= 1]_vars
    /\ [](calls[1].pc = "awaiting" => sent[1] = 0)
    /\ [](Done(1) => sent[1] = 1)
    /\ [](calls[1].pc \in {"awaiting", "done"} => QueryCalls(calls[1].trace) <= 1)
    /\ []((Done(1) /\ EndedInError) => calls[1].response.isError)
    /\ [](Done(1) => CanDispatch(1))
    /\ [][(Done(1) /\ calls[1].response.isError /\ calls[1]'.pc = "awaiting"
              /\ NativeSucceeded(calls[1]'.trace))
          => ~HasError(calls[1]'.outcome)]_vars
    /\ (calls[1].pc = "awaiting") ~> Done(1)

\* C8 witness: a call in which a native call raised an exception has been
\* answered once, error-flagged, and the adapter is serving.
C8_Witness ==
    /\ phase = "serving"
    /\ Done(1)
    /\ Raised(calls[1].trace)
    /\ calls[1].response.isError
    /\ sent[1] = 1

\* C9: a call with the same request as a remembered earlier call, both with
\* a successful query against the same file set, has the same ordered result
\* list and the same total, whatever calls were served in between.
C9_SameRequestSameResults ==
    (/\ ref # <<>>
     /\ calls[1].pc \in {"awaiting", "done"}
     /\ calls[1].request = ref[1].request
     /\ NativeSucceeded(ref[1].trace)
     /\ NativeSucceeded(calls[1].trace)) =>
        /\ calls[1].outcome.results = ref[1].outcome.results
        /\ calls[1].outcome.totalResults = ref[1].outcome.totalResults
        /\ calls[1].outcome = ref[1].outcome

\* C9 witness: the remembered request is answered again after a call with
\* another request, with the same list of two or more lines.
C9_Witness ==
    /\ ref # <<>>
    /\ ref[1].other
    /\ Done(1)
    /\ calls[1].request = ref[1].request
    /\ NativeSucceeded(ref[1].trace)
    /\ NativeSucceeded(calls[1].trace)
    /\ Len(calls[1].outcome.results) >= 2
    /\ calls[1].outcome.results = ref[1].outcome.results

\* the fixed messages of the last-error codes 1 to 9, in the order of the codes
MappedMessages ==
    << "Out of memory",
       "Everything search client is not running",
       "Unable to register window class",
       "Unable to create listening window",
       "Unable to create listening thread",
       "Invalid index",
       "Invalid call",
       "Invalid request data, request data first",
       "Bad parameter" >>

\* the message a failed query with last-error code `code` is to carry
ExpectedMessage(code) ==
    IF code \in 1..Len(MappedMessages) THEN MappedMessages[code]
    ELSE "Everything query failed with error code: " \o NumToStr(code)

\* C10: when the native query fails, the outcome's error message is the fixed
\* message of the last-error code for the codes 1 to 9, each code with a
\* message of its own, and the generic message reporting the code N for any
\* other code; the outcome carries no result lines and a total of 0.
C10_MessageByErrorCode ==
    /\ \A i, j \in 1..Len(MappedMessages) :
           i # j => MappedMessages[i] # MappedMessages[j]
    /\ (calls[1].pc \in {"awaiting", "done"} /\ NativeFailed(calls[1].trace)) =>
           /\ \E code \in ErrorCodes :
                  /\ ReadLastError(calls[1].trace, code)
                  /\ calls[1].outcome.error = <<ExpectedMessage(code)>>
           /\ calls[1].outcome.results = <<>>
           /\ calls[1].outcome.totalResults = 0

\* C10 witness: a query that failed with a code outside 1..9 carries the
\* generic message with that code.
C10_Witness ==
    /\ Done(1)
    /\ NativeFailed(calls[1].trace)
    /\ ReadLastError(calls[1].trace, MaxErrorCode)
    /\ calls[1].outcome.error
           = <<"Everything query failed with error code: " \o NumToStr(MaxErrorCode)>>
    /\ calls[1].outcome.results = <<>>
    /\ calls[1].outcome.totalResults = 0

\* the sort code the engine is to be given for a sortBy, by name
ExpectedSortCode(sortBy) ==
    IF sortBy = <<>> THEN 1
    ELSE CASE sortBy[1] = "name_asc"  -> 1
           [] sortBy[1] = "name_desc" -> 2
           [] sortBy[1] = "path_asc"  -> 3
           [] sortBy[1] = "path_desc" -> 4
           [] sortBy[1] = "size_asc"  -> 5
           [] sortBy[1] = "size_desc" -> 6
           [] sortBy[1] = "date_asc"  -> 13
           [] sortBy[1] = "date_desc" -> 14
           [] OTHER                   -> 1

\* the sortBy of a request: only search_files_advanced has one
SortByOf(a) == IF a.tool = SEARCH_FILES_ADVANCED THEN a.sortBy ELSE <<>>

\* the run gave the sort code `code` to the engine, once
GaveSortCode(t, code) ==
    /\ Cardinality({k \in 1..Len(t) : t[k].fn = "Everything_SetSort"}) = 1
    /\ \E k \in 1..Len(t) : t[k].fn = "Everything_SetSort" /\ t[k].arg = NumToStr(code)

\* C11: the sort code given to the engine is determined by sortBy:
\* name_asc=1, name_desc=2, path_asc=3, path_desc=4, size_asc=5, size_desc=6,
\* date_asc=13, date_desc=14, and 1 when sortBy is absent or not one of
\* these; search_files, find_duplicates and search_content always give 1.
C11_SortCodeBySortBy ==
    /\ \A sortBy \in OptSort \cup {<<"">>, <<"size">>, <<"NAME_DESC">>} :
           SortOrder(sortBy) = ExpectedSortCode(sortBy)
    /\ calls[1].pc \in {"awaiting", "done"} =>
           /\ GaveSortCode(calls[1].trace, ExpectedSortCode(SortByOf(calls[1].request)))
           /\ ctx.sort = ExpectedSortCode(SortByOf(calls[1].request))
           /\ calls[1].request.tool # SEARCH_FILES_ADVANCED
                  => GaveSortCode(calls[1].trace, 1)

\* C11 witness: search_files_advanced with sortBy=date_desc has given the
\* engine the sort code 14.
C11_Witness ==
    /\ Done(1)
    /\ calls[1].request.tool = SEARCH_FILES_ADVANCED
    /\ calls[1].request.sortBy = <<"date_desc">>
    /\ GaveSortCode(calls[1].trace, 14)
    /\ ctx.sort = 14

\* the rows behind the result lines of the call of slot 1, in their order
ShownRows == EngineVisible(ctx)

\* the prefix of the line of a row
ExpectedTag(row) ==
    IF row.isFile THEN "[FILE]" ELSE IF row.isFolder THEN "[FOLDER]" ELSE "[UNKNOWN]"

\* directory and name joined by one backslash, inserted unless the directory
\* ends with one
JoinedByOneSeparator(path, fileName) ==
    IF EndsWith(path, "\\") THEN path \o fileName ELSE path \o "\\" \o fileName

\* the displayed full path: the join when directory and name are both
\* non-empty, the name alone when the directory is empty, nothing when the
\* name is empty
ExpectedFullPath(path, fileName) ==
    IF fileName = "" THEN ""
    ELSE IF path = "" THEN fileName
    ELSE JoinedByOneSeparator(path, fileName)

\* directory paths and file names the join is tried on
JoinPaths == {"", "C:", "C:\\", "C:\\d", "C:\\d\\", "\\"}

JoinNames == {"", "a", "a.txt"}

\* the successful call of slot 1 has one line per shown row
LinesOfShownRows ==
    /\ calls[1].pc \in {"awaiting", "done"}
    /\ NativeSucceeded(calls[1].trace)

\* C12 as stated: for every result row the line is the type prefix, a space,
\* and the directory path joined to the file name with exactly one backslash
\* separator, inserted only if the directory does not already end with one.
C12_AlwaysOneSeparator ==
    LinesOfShownRows =>
        /\ Len(calls[1].outcome.results) = Len(ShownRows)
        /\ \A k \in 1..Len(ShownRows) :
               calls[1].outcome.results[k] =
                   ExpectedTag(ShownRows[k]) \o " "
                       \o JoinedByOneSeparator(ShownRows[k].path, ShownRows[k].fileName)

\* C12 amended: for every result row with a non-empty directory path and
\* file name the displayed full path is the directory joined to the name
\* with exactly one backslash, inserted only if the directory does not
\* already end with one; a row with an empty directory path is displayed by
\* its file name alone, without separator, and a row with an empty file name
\* by an empty path; the line is prefixed [FILE] if the row is a file, else
\* [FOLDER] if it is a folder, else [UNKNOWN].
C12_OneSeparatorWhenBothGiven ==
    /\ \A path \in JoinPaths, fileName \in JoinNames :
           FullPath(path, fileName) = ExpectedFullPath(path, fileName)
    /\ LinesOfShownRows =>
           /\ Len(calls[1].outcome.results) = Len(ShownRows)
           /\ \A k \in 1..Len(ShownRows) :
                  /\ calls[1].outcome.results[k] =
                         ExpectedTag(ShownRows[k]) \o " "
                             \o ExpectedFullPath(ShownRows[k].path, ShownRows[k].fileName)
                  /\ ~Includes(calls[1].outcome.results[k], "\\\\")

\* C12 witness: a folder in a directory ending with a separator, files in
\* directories without one, and a row without directory, each on its line.
C12_Witness ==
    /\ Done(1)
    /\ NativeSucceeded(calls[1].trace)
    /\ calls[1].outcome.results =
           << "[FOLDER] C:\\A", "[FILE] D:\\a.d", "[FILE] C:\\d\\a.txt", "[UNKNOWN] ab" >>

\* the run reached its native query
QueryExecuted(t) == QueryCalls(t) > 0

\* the search text of a request
ExpectedSearchText(a) ==
    CASE a.tool = SEARCH_FILES          -> a.query
      [] a.tool = SEARCH_FILES_ADVANCED -> OrderedSearchText(a)
      [] a.tool = FIND_DUPLICATES       ->
             PrefixIfProvided("path:\"", a.path, "\" ") \o a.filename
      [] OTHER                          -> ContentSearchText(a)

\* the query context derived from a request alone
ExpectedContext(a) ==
    [search |-> ExpectedSearchText(a),
     matchCase |-> IF a.tool \in {SEARCH_FILES, SEARCH_FILES_ADVANCED}
                   THEN a.matchCase # <<>> /\ a.matchCase[1] ELSE FALSE,
     matchWholeWord |-> IF a.tool \in {SEARCH_FILES, SEARCH_FILES_ADVANCED}
                        THEN a.matchWholeWord # <<>> /\ a.matchWholeWord[1]
                        ELSE a.tool = FIND_DUPLICATES,
     regex |-> IF a.tool \in {SEARCH_FILES, SEARCH_FILES_ADVANCED}
               THEN a.regex # <<>> /\ a.regex[1] ELSE FALSE,
     max |-> AskedMax(a),
     offset |-> 0,
     requestFlags |-> 7,
     sort |-> ExpectedSortCode(SortByOf(a))]

SetterOrder ==
    << "Everything_SetSearchW", "Everything_SetMatchCase", "Everything_SetMatchWholeWord",
       "Everything_SetRegex", "Everything_SetMax", "Everything_SetOffset",
       "Everything_SetRequestFlags", "Everything_SetSort" >>

\* the four getters of one index in the order they are to be called
GetterOrder ==
    << "Everything_GetResultFileNameW", "Everything_GetResultPathW",
       "Everything_IsFileResult", "Everything_IsFolderResult" >>

\* a native call by name and argument; the setters' arguments are left open
NativeCall(fn, arg) == [fn |-> fn, arg |-> arg]

\* the getter calls for the indexes 0..count-1 in increasing order
GettersUpTo(count) ==
    [k \in 1..(Len(GetterOrder) * count) |->
        NativeCall(GetterOrder[((k - 1) % Len(GetterOrder)) + 1],
                   NumToStr((k - 1) \div Len(GetterOrder)))]

\* the calls that are to follow the setters: the query with the wait flag,
\* then the result count and the getters after a success, the last-error
\* code after a failure
AfterSetters(succeeded, count) ==
    <<NativeCall("Everything_QueryW", "true")>>
        \o (IF succeeded
            THEN <<NativeCall("Everything_GetNumResults", "")>> \o GettersUpTo(count)
            ELSE <<NativeCall("Everything_GetLastError", "")>>)

\* the log t follows the order, for a query that succeeded or not and a
\* result count: setters first, then AfterSetters; it is the whole sequence
\* unless a native call raised an exception, which ends it at that call
FollowsOrder(t, succeeded, count) ==
    LET rest == AfterSetters(succeeded, count)
        whole == Len(SetterOrder) + Len(rest)
    IN  /\ Len(t) <= whole
        /\ Len(t) = whole \/ Raised(t)
        /\ \A k \in 1..Len(t) :
               IF k <= Len(SetterOrder) THEN t[k].fn = SetterOrder[k]
               ELSE NativeCall(t[k].fn, t[k].arg) = rest[k - Len(SetterOrder)]
        /\ \A k \in 1..Len(t) : (t[k].fn = "Everything_GetNumResults" /\ t[k].result # Threw)
               => t[k].result = NumToStr(count)

CalledIn(t, fns) == \E k \in 1..Len(t) : t[k].fn \in fns

ReadsOfResults ==
    {"Everything_GetNumResults"} \cup {GetterOrder[g] : g \in 1..Len(GetterOrder)}

\* the largest number of rows the file set can show
MaxShown == Len(Index)

\* C14: within every call the native calls occur in the order search text,
\* match-case, whole-word, regex, max results, offset, requested fields,
\* sort order, then one query with the wait flag true (exactly one unless an
\* exception ended the run before it); the last-error code is read only
\* after a failed query; the result count and the getters (file name, path,
\* is-file, is-folder for the indexes 0..count-1 in increasing order) are
\* read only after a successful query and never after a failed one.
C14_NativeCallOrder ==
    calls[1].pc \in {"awaiting", "done"} =>
        /\ \E succeeded \in BOOLEAN, count \in 0..MaxShown :
               FollowsOrder(calls[1].trace, succeeded, count)
        /\ QueryCalls(calls[1].trace) <= 1
        /\ ~Raised(calls[1].trace) => QueryCalls(calls[1].trace) = 1
        /\ CalledIn(calls[1].trace, {"Everything_GetLastError"})
               => NativeFailed(calls[1].trace)
        /\ CalledIn(calls[1].trace, ReadsOfResults) =>
               \E k \in 1..Len(calls[1].trace) :
                   /\ calls[1].trace[k].fn = "Everything_QueryW"
                   /\ calls[1].trace[k].result = "true"
        /\ NativeFailed(calls[1].trace) => ~CalledIn(calls[1].trace, ReadsOfResults)

\* C14 witness: a successful call with two results has made its eighteen
\* native calls: eight setters, the query, the count, four getters for
\* index 0 and four for index 1.
C14_Witness ==
    /\ Done(1)
    /\ NativeSucceeded(calls[1].trace)
    /\ Len(calls[1].trace) = 18
    /\ calls[1].trace[9] = [fn |-> "Everything_QueryW", arg |-> "true", result |-> "true"]
    /\ calls[1].trace[10].fn = "Everything_GetNumResults"
    /\ calls[1].trace[10].result = "2"
    /\ calls[1].trace[11].fn = "Everything_GetResultFileNameW"
    /\ calls[1].trace[11].arg = "0"
    /\ calls[1].trace[18].fn = "Everything_IsFolderResult"
    /\ calls[1].trace[18].arg = "1"

\* the result lines a request gives against the file set under its own
\* parameters
OwnResults(a) == ResultLines(EngineVisible(ExpectedContext(a)), ExpectedContext(a))

\* C15 as stated: nothing orders concurrently dispatched calls: while one
\* call is between its parameter-setting and its query, the configuration
\* of another call can begin, so native calls of the two interleave.
C15_NothingOrdersTheCalls ==
    \A s \in Slots :
        calls[s].pc = "configured" =>
            \A o \in Slots \ {s} : calls[o].pc \in {"idle", "done"} => CanConfigure(o)

\* C15 amended: when the host dispatches two calls concurrently, the native
\* calls of one call never interleave with those of the other: from its
\* first setter to the end of its extraction a call runs without
\* interruption (searchWithEverything holds no await and the native calls
\* are synchronous), so while a call is between its parameter-setting and
\* its query no other call can begin or be in the same position, the engine
\* context is that of the call, and every call returns the results computed
\* under its own parameters; only the continuations that build the responses
\* run in an order the host does not control.
C15_CallsDoNotInterleave ==
    \A s \in Slots :
        /\ calls[s].pc = "configured" =>
               /\ \A o \in Slots \ {s} : ~CanConfigure(o) /\ calls[o].pc # "configured"
               /\ ctx = ExpectedContext(calls[s].request)
        /\ calls[s].pc \in {"awaiting", "done"} =>
               /\ calls[s].outcome.results = OwnResults(calls[s].request)
               /\ calls[s].outcome.totalResults = Len(OwnResults(calls[s].request))
               /\ calls[s].outcome.error = <<>>

\* C15 witness: two calls with different parameters are in flight at once,
\* neither answered yet, each holding the results of its own parameters.
C15_Witness ==
    /\ calls[1].pc = "awaiting"
    /\ calls[2].pc = "awaiting"
    /\ calls[1].request.tool = SEARCH_FILES
    /\ calls[1].request.maxResults = <<1>>
    /\ calls[2].request.tool = SEARCH_FILES_ADVANCED
    /\ ctx = ExpectedContext(calls[2].request)
    /\ calls[1].outcome.results = <<"[FOLDER] C:\\A">>
    /\ calls[2].outcome.results = <<"[UNKNOWN] ab", "[FILE] C:\\d\\a.txt">>

====
